---- MODULE Spec2Model ----
(***************************************************************************)
(* rusql: an in-memory catalog of named tables (rusql.rs), the table       *)
(* storage engine (table.rs) and the statement executor (exec.rs).         *)
(*                                                                         *)
(* Encoding conventions                                                    *)
(*   LiteralValue   [tag, v]: Integer(i), Text(i) (i names a string),      *)
(*                  Real(i) (i names a double) and Null                    *)
(*   Option<T>      [some |-> BOOLEAN, val |-> T]                          *)
(*   Vec<T>         a sequence; Rust's 0-based index i is i+1 here         *)
(*   Table.pk       Option<usize> as a number: 0 is None, i+1 is Some(i)   *)
(*   BTreeMap       a function; iteration is by ascending key              *)
(*   panic          operations return [ok, t]; ok = FALSE is a panic and   *)
(*                  t the table as the panic leaves it                     *)
(***************************************************************************)
EXTENDS Integers, Sequences, FiniteSets, TLC

\* ------------------------------------------------------------------------
\* Bounds of the model
\* ------------------------------------------------------------------------
MaxPk == 2
MaxCols == 3
MaxBatch == 2

\* ------------------------------------------------------------------------
\* definitions.rs: values and schema
\* ------------------------------------------------------------------------
Null == [tag |-> "Null", v |-> 0]

Integer(i) == [tag |-> "Integer", v |-> i]

Text(i) == [tag |-> "Text", v |-> i]

Real(i) == [tag |-> "Real", v |-> i]

ColumnDef(n, ty, cs) == [name |-> n, column_type |-> ty, column_constraints |-> cs]

\* LiteralValue::to_uint, the coercion of a primary-key cell to a storage
\* key. A non-negative Integer is its own key; for every other value the
\* outcome is not specified: un is the outcome taken ("panic" or "zero").
to_uint(lit, un) ==
    IF lit.tag = "Integer" /\ lit.v >= 0
    THEN [ok |-> TRUE, key |-> lit.v]
    ELSE [ok |-> un = "zero", key |-> 0]

ToUintOutcomes == {"panic", "zero"}

\* ------------------------------------------------------------------------
\* Helpers for Vec and BTreeMap
\* ------------------------------------------------------------------------
Max(a, b) == IF a >= b THEN a ELSE b

MinOf(S) == CHOOSE x \in S : \A y \in S : x <= y

RECURSIVE SortedKeys(_)
\* the keys of a BTreeMap in iteration order
SortedKeys(S) ==
    IF S = {} THEN <<>>
    ELSE LET m == MinOf(S) IN <<m>> \o SortedKeys(S \ {m})

\* BTreeMap::values as a sequence
Values(data) ==
    LET ks == SortedKeys(DOMAIN data) IN [i \in 1..Len(ks) |-> data[ks[i]]]

\* BTreeMap::insert
MapInsert(m, k, val) == [x \in (DOMAIN m) \cup {k} |-> IF x = k THEN val ELSE m[x]]

\* BTreeMap::remove
MapRemove(m, k) == [x \in (DOMAIN m) \ {k} |-> m[x]]

EmptyMap == [x \in {} |-> 0]

\* Iterator::position: the first index with the name, 0 when there is none
Position(header, name) ==
    IF \E i \in 1..Len(header) : header[i].name = name
    THEN MinOf({i \in 1..Len(header) : header[i].name = name})
    ELSE 0

\* ------------------------------------------------------------------------
\* table.rs
\* ------------------------------------------------------------------------
RECURSIVE ScanConstraints(_, _, _)
\* the loop of process_constraints from column i on; pk is the value so far
ScanConstraints(header, i, pk) ==
    IF i > Len(header) THEN pk
    ELSE ScanConstraints(header, i + 1,
            IF \E j \in 1..Len(header[i].column_constraints) :
                    header[i].column_constraints[j] = "PrimaryKey"
            THEN i ELSE pk)

process_constraints(table) ==
    [table EXCEPT !.pk = ScanConstraints(table.header, 1, table.pk)]

\* Table::new
TableNew(table_def) ==
    process_constraints([name |-> table_def.table_name,
                         header |-> table_def.columns,
                         data |-> EmptyMap,
                         pk |-> 0,
                         max_pk |-> 0])

new_result_table(header) ==
    [name |-> "", header |-> header, data |-> EmptyMap, pk |-> 0, max_pk |-> 0]

get_column_index(table, name) == Position(table.header, name)

assert_size(table) ==
    \A k \in DOMAIN table.data : Len(table.data[k]) = Len(table.header)

\* add_column without the backfill of the stored rows
add_column_header_only(table, column_def) ==
    [table EXCEPT !.header = Append(table.header, column_def)]

add_column(table, column_def) ==
    [table EXCEPT !.header = Append(table.header, column_def),
                  !.data = [k \in DOMAIN table.data |-> Append(table.data[k], Null)]]

\* push_row with a map insert that keeps the row a key already holds
push_row_keeps_stored(table, row, un) ==
    IF table.pk # 0
    THEN IF table.pk > Len(row)
         THEN [ok |-> FALSE, t |-> table]
         ELSE LET c == to_uint(row[table.pk], un) IN
              IF ~c.ok THEN [ok |-> FALSE, t |-> table]
              ELSE [ok |-> TRUE,
                    t |-> [table EXCEPT !.max_pk = Max(table.max_pk, c.key),
                                        !.data = IF c.key \in DOMAIN table.data
                                                 THEN table.data
                                                 ELSE MapInsert(table.data, c.key, row)]]
    ELSE [ok |-> TRUE,
          t |-> [table EXCEPT !.max_pk = table.max_pk + 1,
                              !.data = MapInsert(table.data, table.max_pk + 1, row)]]

push_row(table, row, un) ==
    IF table.pk # 0
    THEN IF table.pk > Len(row)
         THEN [ok |-> FALSE, t |-> table]
         ELSE LET c == to_uint(row[table.pk], un) IN
              IF ~c.ok THEN [ok |-> FALSE, t |-> table]
              ELSE [ok |-> TRUE,
                    t |-> [table EXCEPT !.max_pk = Max(table.max_pk, c.key),
                                        !.data = MapInsert(table.data, c.key, row)]]
    ELSE [ok |-> TRUE,
          t |-> [table EXCEPT !.max_pk = table.max_pk + 1,
                              !.data = MapInsert(table.data, table.max_pk + 1, row)]]

RECURSIVE Scatter(_, _, _, _)
\* the zip loop of insert: row[get_column_index(name).unwrap()] = data
Scatter(table, row, column_names, column_data) ==
    IF column_names = <<>> \/ column_data = <<>> THEN [ok |-> TRUE, row |-> row]
    ELSE LET x == get_column_index(table, Head(column_names)) IN
         IF x = 0 THEN [ok |-> FALSE, row |-> row]
         ELSE Scatter(table, [row EXCEPT ![x] = Head(column_data)],
                      Tail(column_names), Tail(column_data))

\* InsertOne synthesizing max_pk, not max_pk + 1
InsertOneAtMaxPk(table, column_data, specified_columns, un) ==
    IF specified_columns.some
    THEN IF Len(specified_columns.val) # Len(column_data)
         THEN [ok |-> FALSE, t |-> table]
         ELSE LET s == Scatter(table, [i \in 1..Len(table.header) |-> Null],
                               specified_columns.val, column_data)
                  row == IF table.pk # 0 /\ s.row[table.pk] = Null
                         THEN [s.row EXCEPT ![table.pk] = Integer(table.max_pk)]
                         ELSE s.row
              IN IF ~s.ok THEN [ok |-> FALSE, t |-> table]
                 ELSE push_row(table, row, un)
    ELSE push_row(table, column_data, un)

\* one iteration of the loop of Table::insert
InsertOne(table, column_data, specified_columns, un) ==
    IF specified_columns.some
    THEN IF Len(specified_columns.val) # Len(column_data)
         THEN [ok |-> FALSE, t |-> table]
         ELSE LET s == Scatter(table, [i \in 1..Len(table.header) |-> Null],
                               specified_columns.val, column_data)
                  row == IF table.pk # 0 /\ s.row[table.pk] = Null
                         THEN [s.row EXCEPT ![table.pk] = Integer(table.max_pk + 1)]
                         ELSE s.row
              IN IF ~s.ok THEN [ok |-> FALSE, t |-> table]
                 ELSE push_row(table, row, un)
    ELSE push_row(table, column_data, un)

RECURSIVE TableInsert(_, _, _, _)
\* Table::insert
TableInsert(table, column_data, specified_columns, un) ==
    IF column_data = <<>> THEN [ok |-> TRUE, t |-> table]
    ELSE LET r == InsertOne(table, Head(column_data), specified_columns, un) IN
         IF ~r.ok THEN r
         ELSE TableInsert(r.t, Tail(column_data), specified_columns, un)

\* Table::delete_where: the keys are collected first, then removed; the
\* closure f is a function on the stored rows
delete_where(table, f) ==
    LET keys == {k \in DOMAIN table.data : f[table.data[k]]} IN
    [table EXCEPT !.data = [k \in (DOMAIN table.data) \ keys |-> table.data[k]]]

\* clear starting the keys over
clear_resets_max_pk(table) == [table EXCEPT !.data = EmptyMap, !.max_pk = 0]

clear(table) == [table EXCEPT !.data = EmptyMap]

\* table.rs get_column; offset is the Option's value, 0 for None
get_column(name, row, head, offset) ==
    LET p == Position(head, name) IN
    IF p = 0 \/ p + offset > Len(row)
    THEN [ok |-> FALSE, v |-> Null]
    ELSE [ok |-> TRUE, v |-> row[p + offset]]

\* ------------------------------------------------------------------------
\* definitions.rs: expressions and statements
\* ------------------------------------------------------------------------
None(d) == [some |-> FALSE, val |-> d]

Some(x) == [some |-> TRUE, val |-> x]

NoExpr == [k |-> "none", v |-> Null, c |-> "", args |-> <<>>]

\* Expression::LiteralValue
Lit(x) == [k |-> "LiteralValue", v |-> x, c |-> "", args |-> <<>>]

\* Expression::ColumnName
Col(n) == [k |-> "ColumnName", v |-> Null, c |-> n, args |-> <<>>]

\* Expression::BinaryOperator((Equals, l, r))
Equals(l, r) == [k |-> "Equals", v |-> Null, c |-> "", args |-> <<l, r>>]

Asterisk == [kind |-> "Asterisk", exprs |-> <<>>]

Expressions(es) == [kind |-> "Expressions", exprs |-> es]

SelectDef(rc, tables, w) ==
    [result_column |-> rc, table_or_subquery |-> tables, where_expr |-> w]

NoSelect == SelectDef(Asterisk, None(<<>>), None(NoExpr))

\* ------------------------------------------------------------------------
\* expressions.rs: ExpressionEvaluator (section 4.3)
\* ------------------------------------------------------------------------
Panic == [t |-> "Panic", v |-> Null, b |-> FALSE]

ValueResult(x) == [t |-> "Value", v |-> x, b |-> FALSE]

BoolResult(x) == [t |-> "Bool", v |-> Null, b |-> x]

RECURSIVE ResolveInTables(_, _, _, _, _)
\* scan the contributing tables' headers in order, accumulating the offset
ResolveInTables(name, row, tables, i, offset) ==
    IF i > Len(tables) THEN [ok |-> FALSE, v |-> Null]
    ELSE IF get_column_index(tables[i], name) # 0
         THEN get_column(name, row, tables[i].header, offset)
         ELSE ResolveInTables(name, row, tables, i + 1, offset + Len(tables[i].header))

\* a ColumnName's cell: through the joined tables when given, else the header
ResolveColumn(name, row, header, tables) ==
    IF tables.some THEN ResolveInTables(name, row, tables.val, 1, 0)
    ELSE get_column(name, row, header, 0)

RECURSIVE eval_expr(_, _, _, _)
eval_expr(expr, row, header, tables) ==
    IF expr.k = "LiteralValue" THEN ValueResult(expr.v)
    ELSE IF expr.k = "ColumnName"
    THEN LET c == ResolveColumn(expr.c, row, header, tables) IN
         IF c.ok THEN ValueResult(c.v) ELSE Panic
    ELSE IF expr.k = "Equals"
    THEN LET l == eval_expr(expr.args[1], row, header, tables)
             r == eval_expr(expr.args[2], row, header, tables)
         IN IF l.t = "Panic" \/ r.t = "Panic" THEN Panic ELSE BoolResult(l = r)
    ELSE Panic

\* eval_bool: a Bool result is returned, a plain value counts as false
eval_bool(expr, row, header, tables) ==
    LET r == eval_expr(expr, row, header, tables) IN
    [ok |-> r.t # "Panic", b |-> r.t = "Bool" /\ r.b]

RECURSIVE ColumnDefInTables(_, _, _)
ColumnDefInTables(name, tables, i) ==
    IF i > Len(tables) THEN [ok |-> FALSE, some |-> FALSE, def |-> ColumnDef("", "", <<>>)]
    ELSE LET p == get_column_index(tables[i], name) IN
         IF p # 0 THEN [ok |-> TRUE, some |-> TRUE, def |-> tables[i].header[p]]
         ELSE ColumnDefInTables(name, tables, i + 1)

\* eval_expr under with_column_def: a direct column reference gives the
\* source column's definition, any other expression gives no definition
eval_column_def(expr, tables) ==
    IF expr.k = "ColumnName" THEN ColumnDefInTables(expr.c, tables.val, 1)
    ELSE [ok |-> TRUE, some |-> FALSE, def |-> ColumnDef("", "", <<>>)]

\* expr_to_literal(expr): it is handed no row, so what it gives for an
\* expression that is not a literal cannot depend on the row: e2l is that
\* outcome (a panic, or one value)
expr_to_literal(expr, e2l) ==
    IF expr.k = "LiteralValue" THEN [ok |-> TRUE, v |-> expr.v] ELSE e2l

\* ------------------------------------------------------------------------
\* rusql.rs: the catalog. db is the map from names to tables; an operation
\* gives [ok, db]: ok = FALSE is a panic and db the catalog as it leaves it
\* ------------------------------------------------------------------------
Done(db) == [ok |-> TRUE, db |-> db]

Fatal(db) == [ok |-> FALSE, db |-> db]

\* the contains_key test under get_table and get_mut_table's unwrap
has_table(db, name) == name \in DOMAIN db

\* rename_table inserting under the new name before it removes the old
rename_table_insert_first(db, old_name, new_name) ==
    IF ~has_table(db, old_name) THEN Fatal(db)
    ELSE Done(MapRemove(MapInsert(db, new_name, db[old_name]), old_name))

rename_table(db, old_name, new_name) ==
    IF ~has_table(db, old_name) THEN Fatal(db)
    ELSE Done(MapInsert(MapRemove(db, old_name), new_name, db[old_name]))

\* create_table skipping an existing name whatever the flag
create_table_if_absent(db, table_def) ==
    IF table_def.table_name \in DOMAIN db
    THEN Done(db)
    ELSE LET table == TableNew(table_def) IN Done(MapInsert(db, table.name, table))

create_table(db, table_def) ==
    IF table_def.if_not_exists /\ table_def.table_name \in DOMAIN db
    THEN Done(db)
    ELSE LET table == TableNew(table_def) IN Done(MapInsert(db, table.name, table))

drop_table(db, name) == Done(MapRemove(db, name))

\* ------------------------------------------------------------------------
\* exec.rs
\* ------------------------------------------------------------------------
alter_table(db, def) ==
    IF def.mode = "RenameTo" THEN rename_table(db, def.name, def.new_name)
    ELSE IF ~has_table(db, def.name) THEN Fatal(db)
    ELSE Done([db EXCEPT ![def.name] = add_column(db[def.name], def.column_def)])

\* delete removing the rows the predicate rejects
delete_rejected(db, def) ==
    IF ~has_table(db, def.name) THEN Fatal(db)
    ELSE LET table == db[def.name] IN
         IF def.where_expr.some
         THEN LET P(row) == eval_bool(def.where_expr.val, row, table.header, None(<<>>)) IN
              IF \E k \in DOMAIN table.data : ~P(table.data[k]).ok
              THEN Fatal(db)
              ELSE Done([db EXCEPT ![def.name] =
                            delete_where(table,
                            [row \in {table.data[k] : k \in DOMAIN table.data} |-> ~P(row).b])])
         ELSE Done([db EXCEPT ![def.name] = clear(table)])

delete(db, def) ==
    IF ~has_table(db, def.name) THEN Fatal(db)
    ELSE LET table == db[def.name] IN
         IF def.where_expr.some
         THEN LET P(row) == eval_bool(def.where_expr.val, row, table.header, None(<<>>)) IN
              IF \E k \in DOMAIN table.data : ~P(table.data[k]).ok
              THEN Fatal(db)
              ELSE Done([db EXCEPT ![def.name] =
                            delete_where(table,
                            [row \in {table.data[k] : k \in DOMAIN table.data} |-> P(row).b])])
         ELSE Done([db EXCEPT ![def.name] = clear(table)])

RECURSIVE ApplySet(_, _, _, _)
\* the inner loop of update over the SET list, on one row
ApplySet(header, row, set, e2l) ==
    IF set = <<>> THEN [ok |-> TRUE, row |-> row]
    ELSE LET x == Position(header, Head(set).name)
             lit == expr_to_literal(Head(set).expr, e2l)
         IN IF x = 0 \/ ~lit.ok \/ x > Len(row)
            THEN [ok |-> FALSE, row |-> row]
            ELSE ApplySet(header, [row EXCEPT ![x] = lit.v], Tail(set), e2l)

RECURSIVE UpdateRows(_, _, _, _)
\* the outer loop of update over table.data.iter_mut(), from key keys[1] on
UpdateRows(table, keys, def, e2l) ==
    IF keys = <<>> THEN [ok |-> TRUE, t |-> table]
    ELSE LET row == table.data[Head(keys)]
             w == IF def.where_expr.some
                  THEN eval_bool(def.where_expr.val, row, table.header, None(<<>>))
                  ELSE [ok |-> TRUE, b |-> TRUE]
             r == ApplySet(table.header, row, def.set, e2l)
         IN IF ~w.ok THEN [ok |-> FALSE, t |-> table]
            ELSE IF ~w.b THEN UpdateRows(table, Tail(keys), def, e2l)
            ELSE IF ~r.ok
                 THEN [ok |-> FALSE, t |-> [table EXCEPT !.data[Head(keys)] = r.row]]
                 ELSE UpdateRows([table EXCEPT !.data[Head(keys)] = r.row],
                                 Tail(keys), def, e2l)

\* update passing over a table the catalog lacks
update_skips_absent(db, def, e2l) ==
    IF ~has_table(db, def.name) THEN Done(db)
    ELSE LET r == UpdateRows(db[def.name], SortedKeys(DOMAIN db[def.name].data), def, e2l)
         IN [ok |-> r.ok, db |-> [db EXCEPT ![def.name] = r.t]]

update(db, def, e2l) ==
    IF ~has_table(db, def.name) THEN Fatal(db)
    ELSE LET r == UpdateRows(db[def.name], SortedKeys(DOMAIN db[def.name].data), def, e2l)
         IN [ok |-> r.ok, db |-> [db EXCEPT ![def.name] = r.t]]

RECURSIVE product(_, _, _)
RECURSIVE ProductRows(_, _, _, _)
\* the for loop of product over the rows of the first remaining table
ProductRows(rows, remaining, input_product, new_row_opt) ==
    IF rows = <<>> THEN input_product
    ELSE LET new_row == (IF new_row_opt.some THEN new_row_opt.val ELSE <<>>) \o Head(rows)
         IN ProductRows(Tail(rows), remaining,
                        product(remaining, input_product, Some(new_row)),
                        new_row_opt)

product(tables, input_product, new_row_opt) ==
    IF tables # <<>>
    THEN ProductRows(Values(Head(tables).data), Tail(tables), input_product, new_row_opt)
    ELSE IF new_row_opt.some
         THEN push_row(input_product, new_row_opt.val, "panic").t
         ELSE input_product

RECURSIVE JoinHeader(_)
\* input_header of generate_inputs: the tables' headers, concatenated
JoinHeader(tables) ==
    IF tables = <<>> THEN <<>> ELSE Head(tables).header \o JoinHeader(Tail(tables))

generate_inputs(db, select_def) ==
    IF select_def.table_or_subquery.some
    THEN LET names == select_def.table_or_subquery.val IN
         IF \E i \in 1..Len(names) : ~has_table(db, names[i])
         THEN [ok |-> FALSE, input_tables |-> <<>>, t |-> new_result_table(<<>>)]
         ELSE LET input_tables == [i \in 1..Len(names) |-> db[names[i]]] IN
              [ok |-> TRUE, input_tables |-> input_tables,
               t |-> product(input_tables, new_result_table(JoinHeader(input_tables)),
                             None(<<>>))]
    ELSE [ok |-> TRUE, input_tables |-> <<>>,
          t |-> push_row(new_result_table(<<>>), <<>>, "panic").t]

\* filter_inputs without the negation of the predicate
filter_inputs_rejected(input_product, input_tables, select_def) ==
    IF select_def.where_expr.some
    THEN LET P(row) == eval_bool(select_def.where_expr.val, row, input_product.header,
                                 Some(input_tables))
         IN IF \E k \in DOMAIN input_product.data : ~P(input_product.data[k]).ok
            THEN [ok |-> FALSE, t |-> input_product]
            ELSE [ok |-> TRUE,
                  t |-> delete_where(input_product,
                            [row \in {input_product.data[k] : k \in DOMAIN input_product.data} |-> P(row).b])]
    ELSE [ok |-> TRUE, t |-> input_product]

filter_inputs(input_product, input_tables, select_def) ==
    IF select_def.where_expr.some
    THEN LET P(row) == eval_bool(select_def.where_expr.val, row, input_product.header,
                                 Some(input_tables))
         IN IF \E k \in DOMAIN input_product.data : ~P(input_product.data[k]).ok
            THEN [ok |-> FALSE, t |-> input_product]
            ELSE [ok |-> TRUE,
                  t |-> delete_where(input_product,
                            [row \in {input_product.data[k] : k \in DOMAIN input_product.data} |-> ~P(row).b])]
    ELSE [ok |-> TRUE, t |-> input_product]

RECURSIVE RowFromExprs(_, _, _, _, _, _)
\* the loop of generate_row_from_expressions over exprs; acc is
\* [ok, header, new_row] so far
RowFromExprs(acc, push_header, row, exprs, input_tables, i) ==
    IF i > Len(exprs) \/ ~acc.ok THEN acc
    ELSE LET d == eval_column_def(exprs[i], Some(input_tables))
             header == IF push_header /\ d.ok /\ d.some
                       THEN Append(acc.header, d.def) ELSE acc.header
             r == eval_expr(exprs[i], row, header, Some(input_tables))
         IN IF (push_header /\ ~d.ok) \/ r.t = "Panic"
            THEN [acc EXCEPT !.ok = FALSE, !.header = header]
            ELSE RowFromExprs([ok |-> TRUE, header |-> header,
                               new_row |-> IF r.t = "Value"
                                           THEN Append(acc.new_row, r.v)
                                           ELSE acc.new_row],
                              push_header, row, exprs, input_tables, i + 1)

generate_row_from_expressions(results_table, row, exprs, input_tables) ==
    LET acc == RowFromExprs([ok |-> TRUE, header |-> results_table.header,
                             new_row |-> <<>>],
                            Len(results_table.header) = 0, row, exprs, input_tables, 1)
        t == [results_table EXCEPT !.header = acc.header]
    IN IF ~acc.ok THEN [ok |-> FALSE, t |-> t]
       ELSE push_row(t, acc.new_row, "panic")

RECURSIVE ResultRows(_, _, _, _, _)
\* the loop of generate_result_set over input_product.data.values()
ResultRows(results_table, rows, input_product, input_tables, select_def) ==
    IF rows = <<>> THEN [ok |-> TRUE, t |-> results_table]
    ELSE IF select_def.result_column.kind = "Expressions"
    THEN LET r == generate_row_from_expressions(results_table, Head(rows),
                        select_def.result_column.exprs, input_tables)
         IN IF ~r.ok THEN r
            ELSE ResultRows(r.t, Tail(rows), input_product, input_tables, select_def)
    ELSE LET t == IF Len(results_table.header) = 0
                  THEN [results_table EXCEPT !.header = input_product.header]
                  ELSE results_table
         IN ResultRows(push_row(t, Head(rows), "panic").t, Tail(rows),
                       input_product, input_tables, select_def)

generate_result_set(input_product, input_tables, select_def) ==
    ResultRows(new_result_table(<<>>), Values(input_product.data),
               input_product, input_tables, select_def)

\* select; the callback is handed the result rows and changes nothing
select(db, select_def) ==
    LET g == generate_inputs(db, select_def)
        f == filter_inputs(g.t, g.input_tables, select_def)
    IN IF ~g.ok THEN [ok |-> FALSE, t |-> g.t]
       ELSE IF ~f.ok THEN f
       ELSE generate_result_set(f.t, g.input_tables, select_def)

RECURSIVE PushRows(_, _, _)
\* the loop of insert over the nested select's result rows
PushRows(table, rows, un) ==
    IF rows = <<>> THEN [ok |-> TRUE, t |-> table]
    ELSE LET r == push_row(table, Head(rows), un) IN
         IF ~r.ok THEN r ELSE PushRows(r.t, Tail(rows), un)

\* insert passing over the first row of the nested select's result
insert_drops_first(db, def, un) ==
    IF def.data_source = "Values"
    THEN IF ~has_table(db, def.table_name) THEN Fatal(db)
         ELSE LET r == TableInsert(db[def.table_name], def.values, def.column_names, un)
              IN [ok |-> r.ok, db |-> [db EXCEPT ![def.table_name] = r.t]]
    ELSE IF def.data_source = "Select"
    THEN LET results_table == select(db, def.select) IN
         IF ~results_table.ok \/ ~has_table(db, def.table_name) THEN Fatal(db)
         ELSE LET rows == Values(results_table.t.data)
                  r == PushRows(db[def.table_name],
                                IF rows = <<>> THEN rows ELSE Tail(rows), un)
              IN [ok |-> r.ok, db |-> [db EXCEPT ![def.table_name] = r.t]]
    ELSE Done(db)

insert(db, def, un) ==
    IF def.data_source = "Values"
    THEN IF ~has_table(db, def.table_name) THEN Fatal(db)
         ELSE LET r == TableInsert(db[def.table_name], def.values, def.column_names, un)
              IN [ok |-> r.ok, db |-> [db EXCEPT ![def.table_name] = r.t]]
    ELSE IF def.data_source = "Select"
    THEN LET results_table == select(db, def.select) IN
         IF ~results_table.ok \/ ~has_table(db, def.table_name) THEN Fatal(db)
         ELSE LET r == PushRows(db[def.table_name], Values(results_table.t.data), un)
              IN [ok |-> r.ok, db |-> [db EXCEPT ![def.table_name] = r.t]]
    ELSE Done(db)

\* ------------------------------------------------------------------------
\* The statements the parser hands to rusql_exec (RusqlStatement). One
\* record shape serves every kind; a field a kind does not have is empty.
\* ------------------------------------------------------------------------
NoStmt ==
    [kind |-> "None", name |-> "", table_name |-> "", mode |-> "", new_name |-> "",
     column_def |-> ColumnDef("", "", <<>>), if_not_exists |-> FALSE,
     columns |-> <<>>, column_names |-> None(<<>>), data_source |-> "",
     values |-> <<>>, select |-> NoSelect, where_expr |-> None(NoExpr), set |-> <<>>]

CreateTable(n, cols, ine) ==
    [NoStmt EXCEPT !.kind = "CreateTable", !.name = n, !.table_name = n,
                   !.columns = cols, !.if_not_exists = ine]

DropTable(n) == [NoStmt EXCEPT !.kind = "DropTable", !.name = n, !.table_name = n]

RenameTo(n, new) ==
    [NoStmt EXCEPT !.kind = "AlterTable", !.mode = "RenameTo", !.name = n,
                   !.table_name = n, !.new_name = new]

AddColumn(n, def) ==
    [NoStmt EXCEPT !.kind = "AlterTable", !.mode = "AddColumn", !.name = n,
                   !.table_name = n, !.column_def = def]

InsertValues(n, names, rows) ==
    [NoStmt EXCEPT !.kind = "Insert", !.name = n, !.table_name = n,
                   !.column_names = names, !.data_source = "Values", !.values = rows]

InsertSelect(n, sel) ==
    [NoStmt EXCEPT !.kind = "Insert", !.name = n, !.table_name = n,
                   !.data_source = "Select", !.select = sel]

InsertDefaultValues(n) ==
    [NoStmt EXCEPT !.kind = "Insert", !.name = n, !.table_name = n,
                   !.data_source = "DefaultValues"]

Delete(n, w) ==
    [NoStmt EXCEPT !.kind = "Delete", !.name = n, !.table_name = n, !.where_expr = w]

Update(n, set, w) ==
    [NoStmt EXCEPT !.kind = "Update", !.name = n, !.table_name = n, !.set = set,
                   !.where_expr = w]

Select(sel) == [NoStmt EXCEPT !.kind = "Select", !.select = sel]

\* ------------------------------------------------------------------------
\* The state: the catalog of the one Rusql value, and the rusql_exec call
\* ------------------------------------------------------------------------
VARIABLES
    map,      \* Rusql.map
    status,   \* "idle": no call is running; "running": rusql_exec is in
              \* its loop; "fatal": a panic ended the process
    pending,  \* the statements of the batch not yet executed
    result,   \* the Option<Table> the last call returned
    held,     \* the Table of an earlier call that the caller still owns
    executed, \* the statements of the current or last call that were
              \* executed to their end
    last,     \* the statement executed last in the current or last call
    prev      \* the catalog as it was before that statement

vars == <<map, status, pending, result, held, executed, last, prev>>

NoTable == new_result_table(<<>>)

Init ==
    /\ map = EmptyMap
    /\ status = "idle"
    /\ pending = 0
    /\ result = None(NoTable)
    /\ held = None(NoTable)
    /\ executed = 0
    /\ last = NoStmt
    /\ prev = EmptyMap

\* the model's bound on table sizes
Bounded(db) ==
    \A n \in DOMAIN db : db[n].max_pk <= MaxPk /\ Len(db[n].header) <= MaxCols

\* rusql_exec is called with a text that parses to n statements, by a
\* caller that has dropped the table the last call returned
Call(n) ==
    /\ status = "idle"
    /\ status' = "running"
    /\ pending' = n
    /\ executed' = 0
    /\ result' = None(NoTable)
    /\ held' = None(NoTable)
    /\ last' = NoStmt
    /\ prev' = map
    /\ UNCHANGED map

\* the same call by a caller that keeps the table the last call
\* returned: the table is the caller's own value, the call has no
\* reference to it
CallHolding(n) ==
    /\ status = "idle"
    /\ result.some
    /\ status' = "running"
    /\ pending' = n
    /\ executed' = 0
    /\ result' = None(NoTable)
    /\ held' = result
    /\ last' = NoStmt
    /\ prev' = map
    /\ UNCHANGED map

\* rusql_exec is called with a text the parser rejects: it returns None
SyntaxError ==
    /\ status = "idle"
    /\ last' = [NoStmt EXCEPT !.kind = "SyntaxError"]
    /\ pending' = 0
    /\ executed' = 0
    /\ result' = None(NoTable)
    /\ prev' = map
    /\ UNCHANGED <<map, status, held>>

\* one iteration of the loop of rusql_exec over a statement that is no
\* Select: r is what the statement's function gave
Step(stmt, r) ==
    /\ status = "running"
    /\ pending > 0
    /\ Bounded(r.db)
    /\ map' = r.db
    /\ prev' = map
    /\ last' = stmt
    /\ result' = None(NoTable)
    /\ pending' = IF r.ok THEN pending - 1 ELSE pending
    /\ executed' = IF r.ok THEN executed + 1 ELSE executed
    /\ UNCHANGED held
    /\ status' = IF ~r.ok THEN "fatal" ELSE IF pending = 1 THEN "idle" ELSE "running"

ExecCreateTable(stmts) == \E stmt \in stmts : Step(stmt, create_table(map, stmt))

ExecDropTable(stmts) == \E stmt \in stmts : Step(stmt, drop_table(map, stmt.name))

ExecAlterTable(stmts) == \E stmt \in stmts : Step(stmt, alter_table(map, stmt))

ExecDelete(stmts) == \E stmt \in stmts : Step(stmt, delete(map, stmt))

ExecInsert(stmts) ==
    \E stmt \in stmts, un \in ToUintOutcomes : Step(stmt, insert(map, stmt, un))

ExecUpdate(stmts, outcomes) ==
    \E stmt \in stmts, e2l \in outcomes : Step(stmt, update(map, stmt, e2l))

\* the Select arm with a filter that works on the first source table
\* itself: the table is left with the rows of the result
ExecSelectInPlace(sels) ==
    \E sel \in sels :
        LET r == select(map, sel)
            src == sel.table_or_subquery
        IN
        /\ status = "running"
        /\ pending > 0
        /\ last' = Select(sel)
        /\ prev' = map
        /\ result' = IF r.ok THEN Some(r.t) ELSE None(NoTable)
        /\ pending' = IF r.ok THEN pending - 1 ELSE pending
        /\ executed' = IF r.ok THEN executed + 1 ELSE executed
        /\ status' = IF r.ok THEN "idle" ELSE "fatal"
        /\ map' = IF r.ok /\ src.some /\ Len(src.val) >= 1
                  THEN [map EXCEPT ![src.val[1]].data = r.t.data]
                  ELSE map
        /\ UNCHANGED held

\* the Select arm returns from rusql_exec with the result table
ExecSelect(sels) ==
    \E sel \in sels :
        LET r == select(map, sel) IN
        /\ status = "running"
        /\ pending > 0
        /\ last' = Select(sel)
        /\ prev' = map
        /\ result' = IF r.ok THEN Some(r.t) ELSE None(NoTable)
        /\ pending' = IF r.ok THEN pending - 1 ELSE pending
        /\ executed' = IF r.ok THEN executed + 1 ELSE executed
        /\ status' = IF r.ok THEN "idle" ELSE "fatal"
        /\ UNCHANGED <<map, held>>

\* ------------------------------------------------------------------------
\* The inputs of the model
\* ------------------------------------------------------------------------
ColA == ColumnDef("a", "Integer", <<>>)

ColAPk == ColumnDef("a", "Integer", <<"PrimaryKey">>)

ColB == ColumnDef("b", "Text", <<>>)

ColC == ColumnDef("c", "Integer", <<>>)

ColDPk == ColumnDef("d", "Integer", <<"PrimaryKey">>)

\* CREATE TABLE t(a INTEGER PRIMARY KEY, b TEXT)
HeaderKV == <<ColAPk, ColB>>

\* CREATE TABLE t(a INTEGER, b TEXT)
HeaderAB == <<ColA, ColB>>

I1 == Integer(1)

I2 == Integer(2)

I5 == Integer(5)

AIs1 == Equals(Col("a"), Lit(I1))

Assign(n, e) == [name |-> n, expr |-> e]

\* what expr_to_literal may give for an expression that is no literal
E2lOutcomes == {[ok |-> FALSE, v |-> Null], [ok |-> TRUE, v |-> Null],
                [ok |-> TRUE, v |-> I2]}

SelectAll(names) == SelectDef(Asterisk, Some(names), None(NoExpr))

\* --- Spec, the rows of one table: statements on Foo, Bar is a bystander ---
RowCreates ==
    {CreateTable("Foo", HeaderKV, FALSE), CreateTable("Foo", HeaderAB, FALSE),
     CreateTable("Bar", HeaderAB, TRUE)}

RowDrops == {DropTable("Foo")}

\* INSERT without a column list, with the column list (b), with a column
\* list no header has, from a SELECT, and DEFAULT VALUES
RowInserts ==
    {InsertValues("Foo", None(<<>>), rows) :
        rows \in {<<<<I1, I1>>>>, <<<<I1, I2>>>>, <<<<I1, I1>>, <<I2, I2>>>>}}
    \cup {InsertValues("Foo", Some(<<"b">>), rows) : rows \in {<<<<I1>>>>, <<<<I1>>, <<I2>>>>}}
    \cup {InsertValues("Foo", Some(<<"z">>), <<<<I1>>>>),
          InsertValues("Bar", None(<<>>), <<<<I1, I2>>>>),
          InsertValues("Foo", Some(<<"a", "b">>), <<<<I2, I1>>>>),
          InsertSelect("Foo", SelectAll(<<"Foo">>)),
          InsertDefaultValues("Foo")}

RowDeletes ==
    {Delete("Foo", w) : w \in {None(NoExpr), Some(AIs1), Some(Lit(I1)), Some(Col("a"))}}

\* SET a = b, b = 5 and SET b = 5, a = b and SET a = 2
RowUpdates ==
    {Update("Foo", set, w) :
        set \in {<<Assign("a", Col("b")), Assign("b", Lit(I5))>>,
                 <<Assign("b", Lit(I5)), Assign("a", Col("b"))>>,
                 <<Assign("a", Lit(I2))>>},
        w \in {None(NoExpr), Some(AIs1)}}

RowSelects == {SelectAll(<<"Foo">>)}

Next ==
    \/ Call(1)
    \/ SyntaxError
    \/ ExecCreateTable(RowCreates)
    \/ ExecDropTable(RowDrops)
    \/ ExecDelete(RowDeletes)
    \/ ExecInsert(RowInserts)
    \/ ExecUpdate(RowUpdates, E2lOutcomes)
    \/ ExecSelect(RowSelects)

Spec == Init /\ [][Next]_vars

\* --- SpecCatalog, the catalog and the schema: both names, few rows ---
Names == {"Foo", "Bar"}

CatalogCreates ==
    {CreateTable(n, h, ine) : n \in Names, h \in {HeaderKV, HeaderAB}, ine \in BOOLEAN}

CatalogDrops == {DropTable(n) : n \in Names}

CatalogAlters == {RenameTo(n, m) : n \in Names, m \in Names}

CatalogInserts == {InsertValues(n, None(<<>>), <<<<I1, I2>>>>) : n \in Names}


CatalogDeletes == {Delete(n, None(NoExpr)) : n \in Names}

CatalogUpdates == {Update(n, <<Assign("b", Lit(I1))>>, None(NoExpr)) : n \in Names}

CatalogSelects == {SelectAll(<<"Foo">>)}

NextCatalog ==
    \/ Call(1)
    \/ SyntaxError
    \/ ExecCreateTable(CatalogCreates)
    \/ ExecDropTable(CatalogDrops)
    \/ ExecAlterTable(CatalogAlters)
    \/ ExecDelete(CatalogDeletes)
    \/ ExecInsert(CatalogInserts)
    \/ ExecUpdate(CatalogUpdates, E2lOutcomes)
    \/ ExecSelect(CatalogSelects)

SpecCatalog == Init /\ [][NextCatalog]_vars

\* --- SpecSchema, the width of the rows: one table, its header growing ---
SchemaCreates == {CreateTable("Foo", h, FALSE) : h \in {HeaderKV, HeaderAB}}

SchemaDrops == {DropTable("Foo")}

\* ADD COLUMN c INTEGER, ADD COLUMN d INTEGER PRIMARY KEY
SchemaAlters == {AddColumn("Foo", ColC), AddColumn("Foo", ColDPk)}

\* <<I1>> is narrower than every header
SchemaInserts ==
    {InsertValues("Foo", None(<<>>), <<<<I1, I2>>>>),
     InsertValues("Foo", None(<<>>), <<<<I1>>>>),
     InsertValues("Foo", Some(<<"b">>), <<<<I1>>>>),
     InsertSelect("Foo", SelectAll(<<"Foo">>))}

SchemaDeletes == {Delete("Foo", None(NoExpr)), Delete("Foo", Some(AIs1))}

SchemaUpdates == {Update("Foo", <<Assign("b", Lit(I2))>>, None(NoExpr))}

SchemaSelects == {SelectAll(<<"Foo">>)}

NextSchema ==
    \/ Call(1)
    \/ SyntaxError
    \/ ExecCreateTable(SchemaCreates)
    \/ ExecDropTable(SchemaDrops)
    \/ ExecAlterTable(SchemaAlters)
    \/ ExecDelete(SchemaDeletes)
    \/ ExecInsert(SchemaInserts)
    \/ ExecUpdate(SchemaUpdates, E2lOutcomes)
    \/ ExecSelect(SchemaSelects)

SpecSchema == Init /\ [][NextSchema]_vars

\* --- SpecSelect, the SELECT pipeline: two tables and many SELECTs ---
\* CREATE TABLE t(c INTEGER, b TEXT)
HeaderCB == <<ColC, ColB>>

CIs1 == Equals(Col("c"), Lit(I1))

SelectCreates ==
    {CreateTable("Foo", HeaderAB, FALSE), CreateTable("Bar", HeaderCB, FALSE)}

SelectDrops == {DropTable("Bar")}

\* <<I1>> is narrower than every header
SelectInserts ==
    {InsertValues("Foo", None(<<>>), <<<<I1, I1>>>>),
     InsertValues("Foo", None(<<>>), <<<<I2, I2>>>>),
     InsertValues("Foo", None(<<>>), <<<<I1>>>>),
     InsertValues("Bar", None(<<>>), <<<<I1, I2>>>>),
     InsertValues("Bar", None(<<>>), <<<<I2, I1>>>>),
     InsertSelect("Foo", SelectAll(<<"Foo">>))}

SelectDeletes == {Delete("Foo", None(NoExpr)), Delete("Bar", Some(CIs1))}

SelectUpdates == {Update("Bar", <<Assign("b", Lit(I1))>>, None(NoExpr))}

\* SELECT * | b, 1 | 1, from nothing | Foo | Foo, Bar | Bar, Foo, with no
\* WHERE clause, a comparison, a bare literal or a bare column
SelectDefs ==
    {SelectDef(rc, src, w) :
        rc \in {Asterisk, Expressions(<<Col("b"), Lit(I1)>>), Expressions(<<Lit(I1)>>)},
        src \in {None(<<>>), Some(<<"Foo">>), Some(<<"Foo", "Bar">>), Some(<<"Bar", "Foo">>)},
        w \in {None(NoExpr), Some(AIs1), Some(CIs1), Some(Lit(I1)), Some(Col("a"))}}

NextSelect ==
    \/ Call(1)
    \/ SyntaxError
    \/ ExecCreateTable(SelectCreates)
    \/ ExecDropTable(SelectDrops)
    \/ ExecDelete(SelectDeletes)
    \/ ExecInsert(SelectInserts)
    \/ ExecUpdate(SelectUpdates, E2lOutcomes)
    \/ ExecSelect(SelectDefs)

SpecSelect == Init /\ [][NextSelect]_vars

\* --- SpecBatch, the loop of rusql_exec: batches of up to MaxBatch ---
BatchCreates == {CreateTable("Foo", HeaderAB, FALSE), CreateTable("Bar", HeaderAB, TRUE)}

BatchDrops == {DropTable("Foo")}

BatchAlters == {AddColumn("Foo", ColC), RenameTo("Bar", "Foo")}

BatchInserts ==
    {InsertValues("Foo", None(<<>>), <<<<I1, I2>>>>),
     InsertSelect("Foo", SelectAll(<<"Bar">>)),
     InsertDefaultValues("Foo")}

BatchDeletes == {Delete("Foo", None(NoExpr))}

BatchUpdates == {Update("Foo", <<Assign("b", Lit(I1))>>, None(NoExpr))}

BatchSelects == {SelectAll(<<"Foo">>)}

NextBatch ==
    \/ \E n \in 1..MaxBatch : Call(n)
    \/ SyntaxError
    \/ ExecCreateTable(BatchCreates)
    \/ ExecDropTable(BatchDrops)
    \/ ExecAlterTable(BatchAlters)
    \/ ExecDelete(BatchDeletes)
    \/ ExecInsert(BatchInserts)
    \/ ExecUpdate(BatchUpdates, E2lOutcomes)
    \/ ExecSelect(BatchSelects)

SpecBatch == Init /\ [][NextBatch]_vars

\* --- SpecHold, a caller that keeps a result table over later calls ---
HoldCreates == {CreateTable("Foo", HeaderAB, TRUE), CreateTable("Bar", HeaderCB, TRUE)}

HoldInserts ==
    {InsertValues("Foo", None(<<>>), <<<<I1, I1>>>>),
     InsertValues("Foo", None(<<>>), <<<<I2, I2>>>>),
     InsertValues("Bar", None(<<>>), <<<<I1, I2>>>>)}

HoldDeletes == {Delete("Foo", None(NoExpr)), Delete("Foo", Some(AIs1))}

HoldUpdates == {Update("Foo", <<Assign("b", Lit(I5))>>, None(NoExpr))}

\* SELECT * FROM Foo | * FROM Foo, Bar | b, 1 FROM Foo WHERE a = 1 | 1
HoldSelects ==
    {SelectAll(<<"Foo">>), SelectAll(<<"Foo", "Bar">>),
     SelectDef(Expressions(<<Col("b"), Lit(I1)>>), Some(<<"Foo">>), Some(AIs1)),
     SelectDef(Expressions(<<Lit(I1)>>), None(<<>>), None(NoExpr))}

NextHold ==
    \/ Call(1)
    \/ CallHolding(1)
    \/ SyntaxError
    \/ ExecCreateTable(HoldCreates)
    \/ ExecDelete(HoldDeletes)
    \/ ExecInsert(HoldInserts)
    \/ ExecUpdate(HoldUpdates, E2lOutcomes)
    \/ ExecSelect(HoldSelects)

SpecHold == Init /\ [][NextHold]_vars

\* --- SpecNested, INSERT ... SELECT: Foo filled from itself and from Bar ---
NestedCreates == {CreateTable("Foo", HeaderAB, FALSE), CreateTable("Bar", HeaderAB, TRUE)}

\* INSERT INTO Foo SELECT * FROM Foo | * FROM Bar | * FROM Bar WHERE a = 1
\* | b, 1 FROM Bar
NestedInserts ==
    {InsertValues("Foo", None(<<>>), <<<<I5, I5>>>>),
     InsertValues("Bar", None(<<>>), <<<<I1, I2>>>>),
     InsertValues("Bar", None(<<>>), <<<<I2, I1>>>>),
     InsertSelect("Foo", SelectAll(<<"Foo">>)),
     InsertSelect("Foo", SelectAll(<<"Bar">>)),
     InsertSelect("Foo", SelectDef(Asterisk, Some(<<"Bar">>), Some(AIs1))),
     InsertSelect("Foo", SelectDef(Expressions(<<Col("b"), Lit(I1)>>),
                                   Some(<<"Bar">>), None(NoExpr)))}

NestedDeletes == {Delete("Foo", None(NoExpr)), Delete("Bar", Some(AIs1))}

NestedSelects == {SelectAll(<<"Foo">>)}

NextNested ==
    \/ Call(1)
    \/ SyntaxError
    \/ ExecCreateTable(NestedCreates)
    \/ ExecDelete(NestedDeletes)
    \/ ExecInsert(NestedInserts)
    \/ ExecSelect(NestedSelects)

SpecNested == Init /\ [][NextNested]_vars

\* ------------------------------------------------------------------------
\* Properties. The state after a statement holds the statement (last) and
\* the catalog it ran on (prev), so a statement's effect is a predicate
\* on one state.
\* ------------------------------------------------------------------------
Target == last.table_name

Survived == status # "fatal"

\* the value of a WHERE operand on a row, read off the header by name
OperandValue(e, row, header) ==
    IF e.k = "LiteralValue" THEN e.v ELSE row[Position(header, e.c)]

\* the WHERE predicate is true on the row: it is a comparison and its two
\* operands have the same value
RowMatches(w, row, header) ==
    /\ w.k = "Equals"
    /\ OperandValue(w.args[1], row, header) = OperandValue(w.args[2], row, header)

\* C5: in a table with a primary key, a push_row (an INSERT of one row
\* without a column list) of a row whose primary-key value is the key of a
\* stored row raises no error and replaces that row: the keys, and so the
\* row count, are unchanged, the row at the key is the new row, every
\* other row is unchanged and max_pk is the maximum of its old value and
\* the key.
C5_PushRowOverwrites ==
    (/\ last.kind = "Insert"
     /\ last.data_source = "Values"
     /\ ~last.column_names.some
     /\ Len(last.values) = 1
     /\ Target \in DOMAIN prev
     /\ prev[Target].pk # 0
     /\ Len(last.values[1]) >= prev[Target].pk
     /\ last.values[1][prev[Target].pk].tag = "Integer"
     /\ last.values[1][prev[Target].pk].v \in DOMAIN prev[Target].data)
    => LET row == last.values[1]
           key == row[prev[Target].pk].v
       IN /\ Survived
          /\ DOMAIN map[Target].data = DOMAIN prev[Target].data
          /\ map[Target].data[key] = row
          /\ \A k \in DOMAIN prev[Target].data \ {key} :
                map[Target].data[k] = prev[Target].data[k]
          /\ map[Target].max_pk = Max(prev[Target].max_pk, key)

\* C5 happens: a row was pushed onto the key of a different stored row,
\* next to another stored row
C5_Witness ==
    /\ last.kind = "Insert"
    /\ last.data_source = "Values"
    /\ ~last.column_names.some
    /\ Len(last.values) = 1
    /\ Survived
    /\ Target \in DOMAIN prev
    /\ prev[Target].pk # 0
    /\ Cardinality(DOMAIN prev[Target].data) >= 2
    /\ last.values[1][prev[Target].pk].v \in DOMAIN prev[Target].data
    /\ prev[Target].data[last.values[1][prev[Target].pk].v] # last.values[1]

\* the INSERT last has a column list that names only columns of the
\* table and leaves its primary-key column out
LeavesPkOut ==
    /\ last.kind = "Insert"
    /\ last.data_source = "Values"
    /\ last.column_names.some
    /\ Target \in DOMAIN prev
    /\ prev[Target].pk # 0
    /\ \A i \in 1..Len(last.column_names.val) :
        /\ Position(prev[Target].header, last.column_names.val[i]) # 0
        /\ last.column_names.val[i] # prev[Target].header[prev[Target].pk].name
    /\ \A j \in 1..Len(last.values) : Len(last.values[j]) = Len(last.column_names.val)

\* C6: in a table with a primary key an INSERT with a column list that
\* leaves the primary-key cell unspecified stores its j-th row under the
\* key max_pk+j with that integer in the primary-key cell; the key is
\* above every stored key and no stored row is overwritten; max_pk is
\* never below a stored key and no INSERT, UPDATE or DELETE lowers it, so
\* the key is above every key the table ever stored.
C6_SurrogateKeys ==
    /\ \A n \in DOMAIN map : \A k \in DOMAIN map[n].data : k <= map[n].max_pk
    /\ (last.kind \in {"Insert", "Update", "Delete"} /\ Target \in DOMAIN prev)
        => /\ Target \in DOMAIN map
           /\ map[Target].max_pk >= prev[Target].max_pk
    /\ LeavesPkOut
        => LET old == prev[Target]
               new == map[Target]
               keys == {old.max_pk + j : j \in 1..Len(last.values)}
           IN /\ Survived
              /\ \A k \in DOMAIN old.data : k <= old.max_pk
              /\ DOMAIN new.data = DOMAIN old.data \cup keys
              /\ \A k \in DOMAIN old.data : new.data[k] = old.data[k]
              /\ \A k \in keys : new.data[k][old.pk] = Integer(k)
              /\ new.max_pk = old.max_pk + Len(last.values)

\* C6 happens: a surrogate key was given in a table whose rows had all
\* been deleted, and it is above the keys of the deleted rows
C6_Witness ==
    /\ LeavesPkOut
    /\ Survived
    /\ prev[Target].data = EmptyMap
    /\ prev[Target].max_pk >= 1
    /\ DOMAIN map[Target].data = {prev[Target].max_pk + 1}

RECURSIVE SequentialSet(_, _, _)
\* the SET list applied in order, each right-hand side evaluated on the
\* row as the earlier assignments left it
SequentialSet(header, row, set) ==
    IF set = <<>> THEN row
    ELSE SequentialSet(header,
            [row EXCEPT ![Position(header, Head(set).name)] =
                            OperandValue(Head(set).expr, row, header)],
            Tail(set))

\* C7: UPDATE applies its SET list to each selected row in order, each
\* right-hand expression evaluated on the row as already modified (SET
\* a = b, b = 5 writes b's previous value into a and then 5 into b); rows
\* the WHERE predicate rejects are unchanged. Stated of the UPDATEs that
\* return.
C7_UpdateSequential ==
    (/\ last.kind = "Update"
     /\ Target \in DOMAIN prev
     /\ assert_size(prev[Target])
     /\ Survived)
    => /\ DOMAIN map[Target].data = DOMAIN prev[Target].data
       /\ \A k \in DOMAIN prev[Target].data :
            LET row == prev[Target].data[k] IN
            map[Target].data[k] =
                IF last.where_expr.some
                    /\ ~RowMatches(last.where_expr.val, row, prev[Target].header)
                THEN row
                ELSE SequentialSet(prev[Target].header, row, last.set)

\* C10: DELETE with a WHERE clause removes exactly the rows of the named
\* table on which the predicate is true, DELETE without one removes all
\* rows; the other rows, the header, the primary-key designation, max_pk
\* and every other table are unchanged.
C10_DeleteFrame ==
    (/\ last.kind = "Delete"
     /\ Target \in DOMAIN prev
     /\ Survived)
    => LET old == prev[Target]
           new == map[Target]
       IN /\ DOMAIN map = DOMAIN prev
          /\ \A m \in DOMAIN prev \ {Target} : map[m] = prev[m]
          /\ new.name = old.name
          /\ new.header = old.header
          /\ new.pk = old.pk
          /\ new.max_pk = old.max_pk
          /\ DOMAIN new.data =
                IF last.where_expr.some
                THEN {k \in DOMAIN old.data :
                        ~RowMatches(last.where_expr.val, old.data[k], old.header)}
                ELSE {}
          /\ \A k \in DOMAIN new.data : new.data[k] = old.data[k]

\* C10 happens: a DELETE ... WHERE removed a row and kept another, with a
\* second table in the catalog
C10_Witness ==
    /\ last.kind = "Delete"
    /\ last.where_expr.some
    /\ Survived
    /\ Target \in DOMAIN prev
    /\ DOMAIN prev # {Target}
    /\ DOMAIN map[Target].data # {}
    /\ DOMAIN map[Target].data # DOMAIN prev[Target].data

\* C1: every row stored in every table of the catalog is as long as the
\* table's header.
C1_RowWidth == \A n \in DOMAIN map : assert_size(map[n])

\* a call of rusql_exec has returned to its caller
Returned == status = "idle" /\ last.kind \notin {"None", "SyntaxError"}

\* C2: when rusql_exec returns without a fatal error every statement of
\* the batch has been executed, those after a Select too, and a Select's
\* result table is returned.
C2_WholeBatch ==
    Returned => /\ pending = 0
                /\ last.kind = "Select" => result.some

\* the SELECT last names source tables that are all in the catalog
SourceNames == last.select.table_or_subquery.val

NamesSources ==
    /\ last.kind = "Select"
    /\ last.select.table_or_subquery.some
    /\ Len(SourceNames) >= 1
    /\ \A i \in 1..Len(SourceNames) : SourceNames[i] \in DOMAIN map

\* the stored rows of the source tables, each in key order
SourceRows == [i \in 1..Len(SourceNames) |-> Values(map[SourceNames[i]].data)]

RECURSIVE Weight(_, _)
\* the number of combinations of rows of the sources after source i
Weight(srcs, i) == IF i >= Len(srcs) THEN 1 ELSE Len(srcs[i + 1]) * Weight(srcs, i + 1)

RECURSIVE Combination(_, _, _)
\* the p-th combination, from source i on: p - 1 read as a number whose
\* i-th digit, in base Len(srcs[i]), picks the row of source i
Combination(srcs, p, i) ==
    IF i > Len(srcs) THEN <<>>
    ELSE srcs[i][(((p - 1) \div Weight(srcs, i)) % Len(srcs[i])) + 1]
            \o Combination(srcs, p, i + 1)

\* every combination of one row of each source, once, concatenated
CrossRows(srcs) ==
    [p \in 1..(Len(srcs[1]) * Weight(srcs, 1)) |-> Combination(srcs, p, 1)]

RECURSIVE SumWidths(_)
SumWidths(names) ==
    IF names = <<>> THEN 0
    ELSE Len(map[Head(names)].header) + SumWidths(Tail(names))

RECURSIVE JoinedHeader(_)
JoinedHeader(names) ==
    IF names = <<>> THEN <<>>
    ELSE map[Head(names)].header \o JoinedHeader(Tail(names))

ReturnedRows == Values(result.val.data)

PlainSelectAll ==
    /\ NamesSources
    /\ last.select.result_column.kind = "Asterisk"
    /\ ~last.select.where_expr.some

\* SELECT * without WHERE gives every combination of source rows once,
\* concatenated in listed order: |T1| x ... x |Tk| rows
C3_Combinations ==
    PlainSelectAll => /\ result.some
                      /\ ReturnedRows = CrossRows(SourceRows)

\* C3: a SELECT * without WHERE over T1..Tk has |T1| x ... x |Tk| result
\* rows, each the concatenation in listed order of one stored row of each
\* source, every combination once, and each of width the sum of the
\* source header widths.
C3_CrossProduct ==
    /\ C3_Combinations
    /\ PlainSelectAll =>
        \A p \in 1..Len(ReturnedRows) : Len(ReturnedRows[p]) = SumWidths(SourceNames)

RECURSIVE Matching(_, _, _)
\* the rows of the sequence on which the WHERE predicate is true, in order
Matching(rows, w, header) ==
    IF rows = <<>> THEN <<>>
    ELSE (IF RowMatches(w, Head(rows), header) THEN <<Head(rows)>> ELSE <<>>)
            \o Matching(Tail(rows), w, header)

\* C4: of a SELECT with a WHERE expression that returns, the result holds
\* the joined rows on which the expression is true and no other (for
\* SELECT * the rows themselves, for a projection as many rows); it is
\* empty when the expression is a bare literal or a bare column.
C4_WhereFilter ==
    (/\ NamesSources
     /\ last.select.where_expr.some
     /\ Survived
     /\ result.some)
    => LET w == last.select.where_expr.val
           kept == Matching(CrossRows(SourceRows), w, JoinedHeader(SourceNames))
       IN /\ Len(ReturnedRows) = Len(kept)
          /\ last.select.result_column.kind = "Asterisk" => ReturnedRows = kept
          /\ w.k # "Equals" => ReturnedRows = <<>>

\* C4 happens: a WHERE comparison over a join of two tables kept a row
\* and dropped a row
C4_Witness ==
    /\ NamesSources
    /\ Len(SourceNames) = 2
    /\ last.select.where_expr.some
    /\ last.select.where_expr.val.k = "Equals"
    /\ last.select.result_column.kind = "Asterisk"
    /\ Survived
    /\ result.some
    /\ Len(ReturnedRows) >= 1
    /\ Len(ReturnedRows) < Len(CrossRows(SourceRows))

\* C8: create_table with the if-not-exists flag on a name in the catalog
\* leaves the catalog unchanged; otherwise it leaves under the name a
\* table with the new header and no rows; every other table is unchanged.
C8_CreateTable ==
    last.kind = "CreateTable"
    => /\ Survived
       /\ DOMAIN map = DOMAIN prev \cup {Target}
       /\ \A m \in DOMAIN prev \ {Target} : map[m] = prev[m]
       /\ IF last.if_not_exists /\ Target \in DOMAIN prev
          THEN map = prev
          ELSE /\ map[Target].name = Target
               /\ map[Target].header = last.columns
               /\ map[Target].data = EmptyMap

\* C8 happens: a CREATE TABLE without the flag replaced a table that had
\* rows and another header, next to a second table
C8_Witness ==
    /\ last.kind = "CreateTable"
    /\ ~last.if_not_exists
    /\ Target \in DOMAIN prev
    /\ prev[Target].data # EmptyMap
    /\ prev[Target].header # last.columns
    /\ DOMAIN prev # {Target}

\* the ALTER TABLE ... RENAME TO last
Renamed == last.kind = "AlterTable" /\ last.mode = "RenameTo"

\* what C9 and its amendment share: the table is under the new name as
\* it was, what was under the new name is gone, the other tables are
\* unchanged; with the old name absent the call is fatal and changes
\* nothing
RenameMoves ==
    Renamed
    => IF last.name \in DOMAIN prev
       THEN /\ Survived
            /\ DOMAIN map = (DOMAIN prev \ {last.name}) \cup {last.new_name}
            /\ map[last.new_name].header = prev[last.name].header
            /\ map[last.new_name].data = prev[last.name].data
            /\ \A m \in DOMAIN prev \ {last.name, last.new_name} : map[m] = prev[m]
       ELSE status = "fatal" /\ map = prev

\* C9 as stated: rename_table(old, new) with old present moves the table
\* to new, header and rows unchanged, leaves no table under old and
\* discards the table that was under new; with old absent it is fatal and
\* the catalog is unchanged.
C9_RenameLeavesNoOld ==
    /\ RenameMoves
    /\ (Renamed /\ last.name \in DOMAIN prev) => last.name \notin DOMAIN map

\* C9 amended: no table is left under old unless new is old.
C9_RenameTable ==
    /\ RenameMoves
    /\ (Renamed /\ last.name \in DOMAIN prev /\ last.new_name # last.name)
        => last.name \notin DOMAIN map

\* C9 happens: a table with rows was moved onto the name of another table
C9_Witness ==
    /\ Renamed
    /\ Survived
    /\ last.name \in DOMAIN prev
    /\ last.new_name \in DOMAIN prev
    /\ last.new_name # last.name
    /\ prev[last.name].data # EmptyMap
    /\ prev[last.new_name] # prev[last.name]

\* the statement last names a table that the catalog it ran on lacks: the
\* table it alters, inserts into, updates or deletes from, or a source of
\* its SELECT or of its nested SELECT
SelectNamesAbsent(sel) ==
    /\ sel.table_or_subquery.some
    /\ \E i \in 1..Len(sel.table_or_subquery.val) :
            sel.table_or_subquery.val[i] \notin DOMAIN prev

NamesAbsent ==
    \/ last.kind \in {"AlterTable", "Update", "Delete"} /\ Target \notin DOMAIN prev
    \/ last.kind = "Insert" /\ last.data_source \in {"Values", "Select"}
            /\ Target \notin DOMAIN prev
    \/ last.kind = "Insert" /\ last.data_source = "Select"
            /\ SelectNamesAbsent(last.select)
    \/ last.kind = "Select" /\ SelectNamesAbsent(last.select)

\* the INSERT last has a data source that is parsed but not implemented
\* and names an absent table
DefaultValuesAbsent ==
    /\ last.kind = "Insert"
    /\ last.data_source = "DefaultValues"
    /\ Target \notin DOMAIN prev

\* the failing statement changed nothing and was not counted, so the
\* catalog is the one the earlier statements of the batch left
FailedFatally ==
    /\ status = "fatal"
    /\ map = prev
    /\ pending >= 1

\* C11 as stated: every ALTER TABLE, INSERT, UPDATE, DELETE or SELECT
\* that names an absent table fails fatally, changes nothing, keeps the
\* effects of the earlier statements and ends the batch; after a fatal
\* failure no statement is executed.
C11_AbsentTableFatal ==
    /\ [](NamesAbsent \/ DefaultValuesAbsent => FailedFatally)
    /\ [][status # "fatal"]_vars

\* C11 amended: the same of every such statement but an INSERT ... DEFAULT
\* VALUES, which on an absent table too is a no-op that does not fail.
C11_AbsentTable ==
    /\ [](NamesAbsent => FailedFatally)
    /\ [](DefaultValuesAbsent => Survived /\ map = prev)
    /\ [][status # "fatal"]_vars

\* C11 happens: the second statement of a batch named an absent table
\* after the first had changed the catalog
C11_Witness ==
    /\ NamesAbsent
    /\ status = "fatal"
    /\ executed = 1
    /\ pending = 1
    /\ map # EmptyMap

\* C12: of every SELECT * over named source tables the result header is
\* the joined header and the result rows are the surviving joined rows,
\* also when no joined row survives.
C12_AsteriskHeader ==
    (/\ NamesSources
     /\ last.select.result_column.kind = "Asterisk"
     /\ Survived
     /\ result.some)
    => /\ result.val.header = JoinedHeader(SourceNames)
       /\ ReturnedRows =
            IF last.select.where_expr.some
            THEN Matching(CrossRows(SourceRows), last.select.where_expr.val,
                          JoinedHeader(SourceNames))
            ELSE CrossRows(SourceRows)

\* C13: of a SELECT with a list of n projection expressions (column
\* references and literals) every result row has n cells and the result
\* header is as long as every result row.
C13_ProjectionWidth ==
    (/\ last.kind = "Select"
     /\ last.select.result_column.kind = "Expressions"
     /\ Survived
     /\ result.some)
    => \A p \in 1..Len(ReturnedRows) :
        /\ Len(ReturnedRows[p]) = Len(last.select.result_column.exprs)
        /\ Len(result.val.header) = Len(ReturnedRows[p])

\* the cells alone: every result row of such a SELECT has n cells
C13_ProjectionCells ==
    (/\ last.kind = "Select"
     /\ last.select.result_column.kind = "Expressions"
     /\ Survived
     /\ result.some)
    => \A p \in 1..Len(ReturnedRows) :
        Len(ReturnedRows[p]) = Len(last.select.result_column.exprs)

\* the UPDATE last ran on a table with a primary key and its SET list
\* has one assignment to the primary-key column, of a literal integer
PkAssignments ==
    {i \in 1..Len(last.set) :
        last.set[i].name = prev[Target].header[prev[Target].pk].name}

SetsPk ==
    /\ last.kind = "Update"
    /\ Target \in DOMAIN prev
    /\ prev[Target].pk # 0
    /\ Cardinality(PkAssignments) = 1
    /\ \A i \in PkAssignments :
        last.set[i].expr.k = "LiteralValue" /\ last.set[i].expr.v.tag = "Integer"

\* the integer the UPDATE writes into the primary-key cells
NewPk == (CHOOSE i \in PkAssignments : TRUE)

NewPkValue == last.set[NewPk].expr.v.v

\* the storage keys of the rows the UPDATE selects
Selected ==
    {k \in DOMAIN prev[Target].data :
        ~last.where_expr.some
        \/ RowMatches(last.where_expr.val, prev[Target].data[k], prev[Target].header)}

\* the UPDATE moves a selected row onto the key of another stored row
PkCollision ==
    /\ SetsPk
    /\ Survived
    /\ NewPkValue \in DOMAIN prev[Target].data
    /\ Selected \ {NewPkValue} # {}

\* C14: an UPDATE that sets the primary-key column of a row to the
\* storage key of another row replaces that other row: afterwards the
\* table holds a single row for that primary-key value.
C14_UpdatePkCollision ==
    PkCollision
    => Cardinality({k \in DOMAIN map[Target].data :
                        map[Target].data[k][prev[Target].pk] = Integer(NewPkValue)}) = 1

\* C19: in every table with a primary key each stored row is held under
\* the storage key that is the integer of its own primary-key cell.
C19_KeyIsPkCell ==
    \A n \in DOMAIN map :
        map[n].pk # 0
        => \A k \in DOMAIN map[n].data : map[n].data[k][map[n].pk] = Integer(k)

\* the INSERT last ran, and returned, on a table without a primary key
PushedNoPk ==
    /\ last.kind = "Insert"
    /\ last.data_source \in {"Values", "Select"}
    /\ Survived
    /\ Target \in DOMAIN prev
    /\ prev[Target].pk = 0

\* C15: in a table without a primary key every push_row stores the row
\* under max_pk+1, a key the table never used: no stored key is above
\* max_pk, no INSERT, UPDATE, DELETE or ADD COLUMN lowers max_pk, and an
\* INSERT of n rows adds the keys max_pk+1..max_pk+n, so the row count
\* grows by n and every stored row is kept.
C15_FreshKeys ==
    /\ \A n \in DOMAIN map :
        map[n].pk = 0 => \A k \in DOMAIN map[n].data : k <= map[n].max_pk
    /\ (/\ last.kind \in {"Insert", "Update", "Delete", "AlterTable"}
        /\ last.mode # "RenameTo"
        /\ Target \in DOMAIN prev
        /\ prev[Target].pk = 0)
        => /\ Target \in DOMAIN map
           /\ map[Target].max_pk >= prev[Target].max_pk
    /\ PushedNoPk
        => LET old == prev[Target]
               new == map[Target]
               keys == (old.max_pk + 1)..new.max_pk
           IN /\ last.data_source = "Values"
                    => new.max_pk = old.max_pk + Len(last.values)
              /\ DOMAIN new.data = DOMAIN old.data \cup keys
              /\ keys \cap DOMAIN old.data = {}
              /\ Cardinality(DOMAIN new.data)
                    = Cardinality(DOMAIN old.data) + (new.max_pk - old.max_pk)
              /\ \A k \in DOMAIN old.data : new.data[k] = old.data[k]

\* C15 happens: a row was pushed after a DELETE had removed a row: it
\* got a key above the removed row's key, not that key again
C15_Witness ==
    /\ PushedNoPk
    /\ last.data_source = "Values"
    /\ Cardinality(DOMAIN prev[Target].data) < prev[Target].max_pk
    /\ DOMAIN map[Target].data \ DOMAIN prev[Target].data = {prev[Target].max_pk + 1}

\* C16: add_column(C) makes C the last entry of a header one longer and
\* Null the last cell of every stored row, each one longer; the storage
\* keys and so the row count, the previous cells, the primary-key
\* designation, max_pk and every other table are unchanged.
C16_AddColumn ==
    (/\ last.kind = "AlterTable"
     /\ last.mode = "AddColumn"
     /\ Target \in DOMAIN prev)
    => LET old == prev[Target]
           new == map[Target]
       IN /\ Survived
          /\ DOMAIN map = DOMAIN prev
          /\ \A m \in DOMAIN prev \ {Target} : map[m] = prev[m]
          /\ new.header = Append(old.header, last.column_def)
          /\ DOMAIN new.data = DOMAIN old.data
          /\ \A k \in DOMAIN old.data : new.data[k] = Append(old.data[k], Null)
          /\ new.name = old.name
          /\ new.pk = old.pk
          /\ new.max_pk = old.max_pk

\* C16 happens: a column declared PRIMARY KEY was added to a table that
\* has a primary key and a stored row
C16_Witness ==
    /\ last.kind = "AlterTable"
    /\ last.mode = "AddColumn"
    /\ last.column_def.column_constraints # <<>>
    /\ Survived
    /\ Target \in DOMAIN prev
    /\ prev[Target].pk # 0
    /\ prev[Target].data # EmptyMap

\* C17: a SELECT leaves the catalog as it was (names, headers, rows,
\* storage keys, primary-key designations, max_pk), and no statement of a
\* later call changes a result table the caller kept.
C17_SelectFrame ==
    /\ [](last.kind = "Select" => map = prev)
    /\ [][status = "running" => held' = held]_vars

\* C17 happens: the caller kept the rows of SELECT * FROM Foo and a
\* later INSERT, UPDATE or DELETE changed the rows of Foo
C17_Witness ==
    /\ held.some
    /\ last.kind \in {"Insert", "Update", "Delete"}
    /\ Survived
    /\ Target = "Foo"
    /\ "Foo" \in DOMAIN prev
    /\ Values(held.val.data) = Values(prev["Foo"].data)
    /\ held.val.data # EmptyMap
    /\ Values(map["Foo"].data) # Values(held.val.data)

\* the INSERT ... SELECT last ran, and returned, on a destination
\* without a primary key
InsertedSelect ==
    /\ last.kind = "Insert"
    /\ last.data_source = "Select"
    /\ Survived
    /\ Target \in DOMAIN prev
    /\ prev[Target].pk = 0

\* the rows of the nested SELECT on the catalog as it was before the
\* statement, in result order
NestedRows == Values(select(prev, last.select).t.data)

\* C18: INSERT INTO D ... SELECT appends to a D without primary key the
\* rows the SELECT gives on the catalog as it was before the statement,
\* unchanged and in result order, under the keys after max_pk: D keeps
\* its rows and grows by the number of result rows, and no other table
\* changes; INSERT INTO T SELECT * FROM T doubles the row count of T.
C18_InsertSelect ==
    InsertedSelect
    => LET old == prev[Target]
           new == map[Target]
       IN /\ DOMAIN map = DOMAIN prev
          /\ \A m \in DOMAIN prev \ {Target} : map[m] = prev[m]
          /\ DOMAIN new.data
                = DOMAIN old.data \cup ((old.max_pk + 1)..(old.max_pk + Len(NestedRows)))
          /\ \A k \in DOMAIN old.data : new.data[k] = old.data[k]
          /\ \A j \in 1..Len(NestedRows) : new.data[old.max_pk + j] = NestedRows[j]
          /\ Cardinality(DOMAIN new.data)
                = Cardinality(DOMAIN old.data) + Len(NestedRows)
          /\ last.select = SelectAll(<<Target>>)
                => Cardinality(DOMAIN new.data) = 2 * Cardinality(DOMAIN old.data)

\* C18 happens: a table with a row was inserted into itself
C18_Witness ==
    /\ InsertedSelect
    /\ last.select = SelectAll(<<Target>>)
    /\ prev[Target].data # EmptyMap

\* C18 happens also with two result rows, from another table
C18_WitnessOrder ==
    /\ InsertedSelect
    /\ Len(NestedRows) = 2
    /\ NestedRows[1] # NestedRows[2]

\* C20: every table of the catalog is stored under the map key that is
\* its own name field.
C20_KeyIsName == \A n \in DOMAIN map : map[n].name = n

====
